---- MODULE Spec2Model ----
(***************************************************************************)
(* A model of sparql_grammar_pydantic: the typed SPARQL 1.1 syntax tree,   *)
(* its construction-time validators, render() and collect_triples().       *)
(*                                                                         *)
(* Values.  Every Python value is a record with a field "kind":            *)
(*   a model instance   [kind |-> <class name>, <field> |-> <value>, ...]  *)
(*   a Python list      [kind |-> "list",  items |-> <<...>>]              *)
(*   a Python tuple     [kind |-> "tuple", items |-> <<...>>]              *)
(*   None               [kind |-> "None"]                                  *)
(*   a str / Enum value [kind |-> "str",   value |-> "..."]                *)
(* A text is the sequence of its lexemes; concatenation of texts is \o.    *)
(* The outcome of render() is [ok, text, err]: the text produced so far    *)
(* and, when ok is FALSE, the Python exception that ended the generator.   *)
(***************************************************************************)
EXTENDS Integers, Sequences, FiniteSets, TLC

VARIABLES node, op, args, result, heap, calls

vars == <<node, op, args, result, heap, calls>>

-----------------------------------------------------------------------------
(* Bounds of the model.                                                    *)

MaxPrimary == 3
MaxSecondary == 3
MaxObjects == 3
MaxPairs == 2
MaxUnion == 3
MaxOtherPaths == 2
MaxComparators == 2
MaxRaw == 3

-----------------------------------------------------------------------------
(* Python values.                                                          *)

None == [kind |-> "None"]

PyList(s) == [kind |-> "list", items |-> s]

PyTuple(s) == [kind |-> "tuple", items |-> s]

PyStr(s) == [kind |-> "str", value |-> s]

PyBool(b) == [kind |-> "bool", value |-> b]

\* An int, kept as the characters of str(int), which is how render uses it.
PyInt(digits) == [kind |-> "int", value |-> digits]

IsNone(v) == v.kind = "None"

IsList(v) == v.kind = "list"

\* Python truthiness: None, the empty list and the empty string are falsy.
Truthy(v) ==
    CASE v.kind = "None" -> FALSE
      [] v.kind = "list" -> Len(v.items) > 0
      [] v.kind = "tuple" -> Len(v.items) > 0
      [] v.kind = "str" -> v.value # ""
      [] v.kind = "bool" -> v.value
      [] OTHER -> TRUE

\* All sequences over S of length lo..hi.
SeqsOf(S, lo, hi) == UNION {[1..n -> S] : n \in lo..hi}

-----------------------------------------------------------------------------
(* Outcomes of render().                                                   *)

Ok(t) == [ok |-> TRUE, text |-> t, err |-> "none"]

Raise(e) == [ok |-> FALSE, text |-> <<>>, err |-> e]

\* "yield from a; yield from b": b runs only when a ran to its end.
Then(a, b) ==
    IF ~a.ok THEN a
    ELSE [ok |-> b.ok, text |-> a.text \o b.text, err |-> b.err]

-----------------------------------------------------------------------------
(* Terminals (terminals.py).  Only the raw value is stored, as the         *)
(* sequence of its characters.                                             *)

VAR1(raw) == [kind |-> "VAR1", value |-> raw]

IRIREF(raw) == [kind |-> "IRIREF", value |-> raw]

PNAME_LN(raw) == [kind |-> "PNAME_LN", value |-> raw]

INTEGER(raw) == [kind |-> "INTEGER", value |-> raw]

BlankNodeLabel(raw) == [kind |-> "BlankNodeLabel", value |-> raw]

STRING_LITERAL2(raw) == [kind |-> "STRING_LITERAL2", value |-> raw]

LANGTAG(raw) == [kind |-> "LANGTAG", value |-> raw]

NIL(raw) == [kind |-> "NIL", value |-> raw]

TerminalClasses ==
    {"VAR1", "IRIREF", "PNAME_LN", "INTEGER", "BlankNodeLabel", "STRING_LITERAL2",
     "LANGTAG", "NIL"}

\* Terminal.render and its overrides.  The base method executes
\* "raise self.value" with a str, which is a TypeError in Python.
RenderTerminal(t) ==
    CASE t.kind = "IRIREF" -> Ok(<<"<">> \o t.value \o <<">">>)
      [] t.kind = "VAR1" -> Ok(<<"?">> \o t.value)
      [] t.kind = "BlankNodeLabel" -> Ok(<<"_:">> \o t.value)
      [] t.kind = "STRING_LITERAL2" -> Ok(<<"\"">> \o t.value \o <<"\"">>)
      [] t.kind = "LANGTAG" -> Ok(<<"@">> \o t.value)
      [] t.kind = "NIL" -> Ok(<<"(">> \o t.value \o <<")">>)
      [] OTHER -> Raise("TypeError")

-----------------------------------------------------------------------------
(* The patterns of terminals_regex.py, as re.fullmatch decides them.  Each *)
(* operator is TRUE when the whole word matches the pattern.               *)

\* ord(c) of the characters the model writes words with.
CodePoint(c) ==
    CASE c = " " -> 32 [] c = "-" -> 45 [] c = "/" -> 47 [] c = "1" -> 49
      [] c = ":" -> 58 [] c = "<" -> 60 [] c = "@" -> 64 [] c = "H" -> 72
      [] c = "e" -> 101 [] c = "h" -> 104 [] c = "p" -> 112 [] c = "t" -> 116
      [] c = "u" -> 117 [] c = "x" -> 120

\* The negated class of IRIREF_REGEX.  The pattern is a raw string, so
\* "\\u0000-\\u0020" is read as: a backslash, 'u', '0', '0', '0', the range
\* from '0' to a backslash (#x30-#x5C), 'u', '0', '0', '2', '0'.  (The
\* backquote, also excluded, cannot be written in a string here and is not
\* among the model's characters.)
IRIREF_Excluded(c) ==
    \/ c \in {"<", ">", "\"", "{", "}", "|", "^", "\\", "u", "0", "2"}
    \/ CodePoint(c) \in 48..92

IRIREF_REGEX(w) == \A i \in DOMAIN w : ~IRIREF_Excluded(w[i])

IsDigit(c) == CodePoint(c) \in 48..57

IsLetter(c) == CodePoint(c) \in (65..90) \cup (97..122)

INTEGER_REGEX(w) == Len(w) >= 1 /\ \A i \in DOMAIN w : IsDigit(w[i])

InRange(c, lo, hi) == lo <= CodePoint(c) /\ CodePoint(c) <= hi

\* [A-Z]|[a-z]|[\u00C0-\u00D6]|[\u00D8-\u00F6]|...|[\U00010000-\U000EFFFF]
PN_CHARS_BASE_REGEX(c) ==
    \/ IsLetter(c)
    \/ InRange(c, 192, 214) \/ InRange(c, 216, 246) \/ InRange(c, 248, 767)
    \/ InRange(c, 880, 893) \/ InRange(c, 895, 8191) \/ InRange(c, 8204, 8205)
    \/ InRange(c, 8304, 8591) \/ InRange(c, 11264, 12271) \/ InRange(c, 12289, 55295)
    \/ InRange(c, 63744, 64975) \/ InRange(c, 65008, 65533)
    \/ InRange(c, 65536, 983039)

PN_CHARS_U_REGEX(c) == PN_CHARS_BASE_REGEX(c) \/ c = "_"

VARNAME_REGEX(w) ==
    /\ Len(w) >= 1
    /\ PN_CHARS_U_REGEX(w[1]) \/ IsDigit(w[1])
    /\ \A i \in 2..Len(w) :
          \/ PN_CHARS_U_REGEX(w[i]) \/ IsDigit(w[i]) \/ CodePoint(w[i]) = 183
          \/ InRange(w[i], 768, 879) \/ InRange(w[i], 8255, 8256)

\* @[a-zA-Z]+(-[a-zA-Z0-9]+)*
LANGTAG_REGEX(w) ==
    /\ Len(w) >= 2
    /\ w[1] = "@"
    /\ LET body == Tail(w)
           dashes == {i \in DOMAIN body : body[i] = "-"}
           first == IF dashes = {} THEN Len(body) + 1
                    ELSE CHOOSE i \in dashes : \A j \in dashes : i <= j
       IN /\ first > 1
          /\ \A i \in 1..(first - 1) : IsLetter(body[i])
          /\ \A i \in first..Len(body) :
                body[i] = "-" \/ IsLetter(body[i]) \/ IsDigit(body[i])
          /\ \A i \in dashes : i < Len(body) /\ body[i + 1] # "-"

get_regex_pattern(cls, w) ==
    CASE cls = "IRIREF" -> IRIREF_REGEX(w)
      [] cls = "VAR1" -> VARNAME_REGEX(w)
      [] cls = "LANGTAG" -> LANGTAG_REGEX(w)
      [] cls = "INTEGER" -> INTEGER_REGEX(w)

\* Terminal.check_value: "ok", or the ValueError that pydantic reports as
\* ValidationError.
check_value(cls, v) == IF get_regex_pattern(cls, v) THEN "ok" ELSE "ValidationError"

-----------------------------------------------------------------------------
(* Node classes (grammar.py): one constructor per class that has no        *)
(* validator of its own.                                                   *)

Var(v) == [kind |-> "Var", value |-> v]

PrefixedName(v) == [kind |-> "PrefixedName", value |-> v]

iri(v) == [kind |-> "iri", value |-> v]

BlankNode(v) == [kind |-> "BlankNode", value |-> v]

GraphTerm(c) == [kind |-> "GraphTerm", content |-> c]

VarOrTerm(v) == [kind |-> "VarOrTerm", varorterm |-> v]

VarOrIri(v) == [kind |-> "VarOrIri", varoriri |-> v]

Integer(i) == [kind |-> "Integer", integer |-> i]

Verb(v) == [kind |-> "Verb", varoriri_or_a |-> v]

GraphNode(v) == [kind |-> "GraphNode", varorterm_or_triplesnode |-> v]

Object(g) == [kind |-> "Object", graphnode |-> g]

ObjectList(l) == [kind |-> "ObjectList", list_object |-> l]

PropertyListNotEmpty(l) == [kind |-> "PropertyListNotEmpty", verb_objectlist |-> l]

TriplesSameSubject(c) == [kind |-> "TriplesSameSubject", content |-> c]

TriplesTemplate(tss, tt) ==
    [kind |-> "TriplesTemplate", triples_same_subject |-> tss, triples_template |-> tt]

QuadsNotTriples(v, tt) ==
    [kind |-> "QuadsNotTriples", var_or_iri |-> v, triples_template |-> tt]

VerbSimple(v) == [kind |-> "VerbSimple", var |-> v]

GraphNodePath(v) == [kind |-> "GraphNodePath", varorterm_or_triplesnodepath |-> v]

ObjectPath(g) == [kind |-> "ObjectPath", graph_node_path |-> g]

ObjectListPath(l) == [kind |-> "ObjectListPath", object_paths |-> l]

PropertyListPathNotEmpty(fp, ops) ==
    [kind |-> "PropertyListPathNotEmpty", first_pair |-> fp, other_pairs |-> ops]

PropertyListPath(p) == [kind |-> "PropertyListPath", plpne |-> p]

CollectionPath(l) == [kind |-> "CollectionPath", graphnodepath_list |-> l]

TriplesNodePath(c) == [kind |-> "TriplesNodePath", coll_path_or_bnpl_path |-> c]

TriplesSameSubjectPath(c) == [kind |-> "TriplesSameSubjectPath", content |-> c]

TriplesBlock(t, tb) == [kind |-> "TriplesBlock", triples |-> t, triples_block |-> tb]

GroupGraphPattern(c) == [kind |-> "GroupGraphPattern", content |-> c]

GraphPatternNotTriples(c) == [kind |-> "GraphPatternNotTriples", content |-> c]

OptionalGraphPattern(g) == [kind |-> "OptionalGraphPattern", group_graph_pattern |-> g]

MinusGraphPattern(g) == [kind |-> "MinusGraphPattern", group_graph_pattern |-> g]

GraphGraphPattern(v, g) ==
    [kind |-> "GraphGraphPattern", var_or_iri |-> v, group_graph_pattern |-> g]

GroupOrUnionGraphPattern(l) ==
    [kind |-> "GroupOrUnionGraphPattern", group_graph_patterns |-> l]

WhereClause(g) == [kind |-> "WhereClause", group_graph_pattern |-> g]

Prologue(d) == [kind |-> "Prologue", decls |-> d]

OrderCondition(v, d) == [kind |-> "OrderCondition", var |-> v, direction |-> d]

String(v) == [kind |-> "String", value |-> v]

RDFLiteral(v, lt, dt) == [kind |-> "RDFLiteral", value |-> v, langtag |-> lt, datatype |-> dt]

\* Property paths.
VerbPath(p) == [kind |-> "VerbPath", path |-> p]

SG_Path(pa) == [kind |-> "SG_Path", path_alternative |-> pa]

PathAlternative(sps) == [kind |-> "PathAlternative", sequence_paths |-> sps]

PathSequence(l) == [kind |-> "PathSequence", list_path_elt_or_inverse |-> l]

PathElt(pp, pm) == [kind |-> "PathElt", path_primary |-> pp, path_mod |-> pm]

PathEltOrInverse(pe, inv) == [kind |-> "PathEltOrInverse", path_elt |-> pe, inverse |-> inv]

PathMod(m) == [kind |-> "PathMod", pathmod |-> m]

PathPrimary(v) == [kind |-> "PathPrimary", value |-> v]

PathNegatedPropertySet(fp, ops) ==
    [kind |-> "PathNegatedPropertySet", first_path |-> fp, other_paths |-> ops]

PathOneInPropertySet(p, neg) ==
    [kind |-> "PathOneInPropertySet", path |-> p, negated |-> neg]

\* Expressions.  The additional_expressions of the additive and the
\* multiplicative level default to the empty list.
Expression(coe) == [kind |-> "Expression", conditional_or_expression |-> coe]

ConditionalOrExpression(caes) ==
    [kind |-> "ConditionalOrExpression", conditional_and_expressions |-> caes]

ConditionalAndExpression(vls) == [kind |-> "ConditionalAndExpression", value_logicals |-> vls]

ValueLogical(re) == [kind |-> "ValueLogical", relational_expression |-> re]

RelationalExpression(l, o, r) ==
    [kind |-> "RelationalExpression", left |-> l, operator |-> o, right |-> r]

NumericExpression(ae) == [kind |-> "NumericExpression", additive_expression |-> ae]

AdditiveExpression(be) ==
    [kind |-> "AdditiveExpression", base_expression |-> be,
     additional_expressions |-> PyList(<<>>)]

MultiplicativeExpression(be) ==
    [kind |-> "MultiplicativeExpression", base_expression |-> be,
     additional_expressions |-> PyList(<<>>)]

UnaryExpression(o, pe) ==
    [kind |-> "UnaryExpression", operator |-> o, primary_expression |-> pe]

PrimaryExpression(c) == [kind |-> "PrimaryExpression", content |-> c]

BrackettedExpression(e) == [kind |-> "BrackettedExpression", expression |-> e]

ExpressionList(es) == [kind |-> "ExpressionList", expressions |-> es]

ArgList(es, d) == [kind |-> "ArgList", expressions |-> es, distinct |-> d]

Constraint(c) == [kind |-> "Constraint", content |-> c]

Filter(c) == [kind |-> "Filter", constraint |-> c]

\* Solution modifiers.
SolutionModifier(g, h, o, lo) ==
    [kind |-> "SolutionModifier", group_by |-> g, having |-> h, order_by |-> o,
     limit_offset |-> lo]

GroupClause(gcs) == [kind |-> "GroupClause", group_conditions |-> gcs]

GroupCondition(c) == [kind |-> "GroupCondition", condition |-> c]

HavingClause(hcs) == [kind |-> "HavingClause", having_conditions |-> hcs]

HavingCondition(c) == [kind |-> "HavingCondition", constraint |-> c]

OrderClause(cs) == [kind |-> "OrderClause", conditions |-> cs]

LimitOffsetClauses(l, o) ==
    [kind |-> "LimitOffsetClauses", limit_clause |-> l, offset_clause |-> o]

LimitClause(l) == [kind |-> "LimitClause", limit |-> l]

OffsetClause(o) == [kind |-> "OffsetClause", offset |-> o]

\* The classes above that derive from SPARQLGrammarBase.  Quads and
\* GroupGraphPatternSub derive from pydantic's BaseModel directly, and the
\* terminals from Terminal.
SPARQLGrammarBase ==
    {"Var", "PrefixedName", "iri", "BlankNode", "GraphTerm", "VarOrTerm", "VarOrIri",
     "Integer", "Verb", "GraphNode", "Object", "ObjectList", "PropertyListNotEmpty",
     "TriplesSameSubject", "TriplesTemplate", "QuadsNotTriples", "VerbSimple",
     "GraphNodePath", "ObjectPath", "ObjectListPath", "PropertyListPathNotEmpty",
     "PropertyListPath", "CollectionPath", "TriplesNodePath", "TriplesSameSubjectPath",
     "TriplesBlock", "GroupGraphPattern", "GraphPatternNotTriples",
     "OptionalGraphPattern", "MinusGraphPattern", "GraphGraphPattern",
     "GroupOrUnionGraphPattern", "WhereClause", "Prologue", "OrderCondition",
     "VerbPath", "SG_Path", "PathAlternative", "PathSequence", "PathElt",
     "PathEltOrInverse", "PathMod", "PathPrimary", "PathNegatedPropertySet",
     "PathOneInPropertySet", "Expression", "ConditionalOrExpression",
     "ConditionalAndExpression", "ValueLogical", "RelationalExpression",
     "NumericExpression", "AdditiveExpression", "MultiplicativeExpression",
     "UnaryExpression", "PrimaryExpression", "BrackettedExpression", "ExpressionList",
     "Constraint", "Filter", "SolutionModifier", "GroupClause", "GroupCondition",
     "HavingClause", "HavingCondition", "OrderClause", "LimitOffsetClauses",
     "LimitClause", "OffsetClause", "String", "RDFLiteral", "ArgList"}

-----------------------------------------------------------------------------
(* The two paired structures and their model validators.  A ValueError     *)
(* raised in a validator reaches the caller as pydantic's ValidationError  *)
(* (the structural error); any other exception reaches the caller as it    *)
(* is.  len(None) is a TypeError.                                          *)

Quads(tt, qnt) == [kind |-> "Quads", triples_templates |-> tt, quads_not_triples |-> qnt]

GroupGraphPatternSub(tb, gpnt) ==
    [kind |-> "GroupGraphPatternSub", triples_blocks |-> tb,
     graph_patterns_not_triples |-> gpnt]

Built(n) == [status |-> "ok", node |-> n]

Failed(e) == [status |-> e, node |-> None]

\* Faulty variant: the N-1 pairing check is missing.
NoPairingCheck(tt, qnt) ==
    IF IsNone(qnt) THEN "TypeError"
    ELSE IF Len(tt.items) < 1 THEN "ValidationError"
    ELSE "ok"

validate_templates_and_quads(tt, qnt) ==
    IF IsNone(qnt) THEN "TypeError"
    ELSE LET tt_len == Len(tt.items)
             qnt_len == Len(qnt.items) IN
         IF tt_len < 1 THEN "ValidationError"
         ELSE IF tt_len > 1 /\ qnt_len < tt_len - 1 THEN "ValidationError"
         ELSE "ok"

validate_blocks_and_patterns(tb, gpnt) ==
    IF IsNone(gpnt) THEN "TypeError"
    ELSE LET tb_len == Len(tb.items)
             gpnt_len == Len(gpnt.items) IN
         IF tb_len < 1 THEN "ValidationError"
         ELSE IF tb_len > 1 /\ gpnt_len < tb_len - 1 THEN "ValidationError"
         ELSE "ok"

ConstructQuads(tt, qnt) ==
    LET v == validate_templates_and_quads(tt, qnt) IN
    IF v = "ok" THEN Built(Quads(tt, qnt)) ELSE Failed(v)

ConstructGroupGraphPatternSub(tb, gpnt) ==
    LET v == validate_blocks_and_patterns(tb, gpnt) IN
    IF v = "ok" THEN Built(GroupGraphPatternSub(tb, gpnt)) ELSE Failed(v)

-----------------------------------------------------------------------------
(* The classes that hold the elements of a production with at least one    *)
(* element in one list field.                                              *)

\* The field validator of PathAlternative and of PathSequence.
must_contain_at_least_one_item(v) ==
    IF Len(v.items) = 0 THEN "ValidationError" ELSE "ok"

OneOrMoreClasses ==
    {"PathAlternative", "PathSequence", "ObjectList", "ObjectListPath",
     "PropertyListNotEmpty", "GroupOrUnionGraphPattern"}

\* cls(<list field>=v): the two path classes run their validator, the
\* other four classes declare the List field and nothing else.
ConstructOneOrMore(cls, v) ==
    CASE cls = "PathAlternative" ->
            IF must_contain_at_least_one_item(v) = "ok" THEN Built(PathAlternative(v))
            ELSE Failed(must_contain_at_least_one_item(v))
      [] cls = "PathSequence" ->
            IF must_contain_at_least_one_item(v) = "ok" THEN Built(PathSequence(v))
            ELSE Failed(must_contain_at_least_one_item(v))
      [] cls = "ObjectList" -> Built(ObjectList(v))
      [] cls = "ObjectListPath" -> Built(ObjectListPath(v))
      [] cls = "PropertyListNotEmpty" -> Built(PropertyListNotEmpty(v))
      [] cls = "GroupOrUnionGraphPattern" -> Built(GroupOrUnionGraphPattern(v))

-----------------------------------------------------------------------------
(* The from_spo helpers.  Their parameters carry type hints only, so any   *)
(* value reaches the isinstance tests.                                     *)

\* cls(**kwargs) for a class whose fields are all required: a missing field
\* is a ValidationError, a keyword that names no field is ignored.
Instantiate(cls, fields, kwargs) ==
    IF fields \subseteq DOMAIN kwargs
    THEN Built([f \in fields \cup {"kind"} |-> IF f = "kind" THEN cls ELSE kwargs[f]])
    ELSE Failed("ValidationError")

\* raise ValueError("<position> must be a <names>"): the message gives the
\* operand's letter and lists class names.
OperandError(position, names) ==
    [status |-> "ValueError", node |-> None,
     message |-> [position |-> position, names |-> names]]

\* "Handle subjects" / "Handle objects": Var, or GraphTerm around iri / BlankNode.
TermAsVarOrTerm(t) ==
    IF t.kind = "Var" THEN VarOrTerm(t) ELSE VarOrTerm(GraphTerm(t))

TriplesSameSubject_from_spo(subject, predicate, object) ==
    IF subject.kind \notin {"Var", "iri", "BlankNode"}
    THEN OperandError("s", {"Var", "iri", "BlankNode"})
    ELSE IF predicate.kind \notin {"Var", "iri"}
    THEN OperandError("p", {"Var", "iri"})
    ELSE LET verb == Instantiate("Verb", {"varoriri_or_a"},
                                 [varoriri |-> VarOrIri(predicate)]) IN
         IF verb.status # "ok" THEN verb
         ELSE IF object.kind \notin {"Var", "iri", "BlankNode"}
         THEN OperandError("o", {"Var", "iri", "BlankNode"})
         ELSE Built(TriplesSameSubject(PyTuple(<<
                  TermAsVarOrTerm(subject),
                  PropertyListNotEmpty(PyList(<<PyTuple(<<
                      verb.node,
                      ObjectList(PyList(<<
                          Object(GraphNode(TermAsVarOrTerm(object)))>>))>>)>>))>>)))

\* "Handle predicates" of TriplesSameSubjectPath.from_spo.
PredicateAsVerb(predicate) ==
    IF predicate.kind = "Var" THEN VerbSimple(predicate)
    ELSE VerbPath(SG_Path(PathAlternative(PyList(<<
             PathSequence(PyList(<<
                 PathEltOrInverse(PathElt(PathPrimary(predicate), None),
                                  PyBool(FALSE))>>))>>))))

\* Faulty variant: an iri predicate goes into a VerbSimple like a Var.
TriplesSameSubjectPath_from_spo_VerbSimple(subject, predicate, object) ==
    IF subject.kind \notin {"Var", "iri", "BlankNode"}
    THEN OperandError("s", {"Var", "iri", "BlankNode"})
    ELSE IF predicate.kind \notin {"Var", "iri"}
    THEN OperandError("p", {"Var", "iri"})
    ELSE IF object.kind \notin {"Var", "iri", "BlankNode"}
    THEN OperandError("o", {"Var", "iri", "BlankNode"})
    ELSE Built(TriplesSameSubjectPath(PyTuple(<<
             TermAsVarOrTerm(subject),
             PropertyListPathNotEmpty(
                 PyTuple(<<VerbSimple(predicate),
                           ObjectListPath(PyList(<<
                               ObjectPath(GraphNodePath(TermAsVarOrTerm(object)))>>))>>),
                 None)>>)))

TriplesSameSubjectPath_from_spo(subject, predicate, object) ==
    IF subject.kind \notin {"Var", "iri", "BlankNode"}
    THEN OperandError("s", {"Var", "iri", "BlankNode"})
    ELSE IF predicate.kind \notin {"Var", "iri"}
    THEN OperandError("p", {"Var", "iri"})
    ELSE IF object.kind \notin {"Var", "iri", "BlankNode"}
    THEN OperandError("o", {"Var", "iri", "BlankNode"})
    ELSE Built(TriplesSameSubjectPath(PyTuple(<<
             TermAsVarOrTerm(subject),
             PropertyListPathNotEmpty(
                 PyTuple(<<PredicateAsVerb(predicate),
                           ObjectListPath(PyList(<<
                               ObjectPath(GraphNodePath(TermAsVarOrTerm(object)))>>))>>),
                 None)>>)))

-----------------------------------------------------------------------------
(* Expression.from_primary_expression and Filter.filter_relational.        *)

\* NumericExpression(AdditiveExpression(MultiplicativeExpression(
\* UnaryExpression(primary_expression=...))))
NumericOf(primary_expression) ==
    NumericExpression(AdditiveExpression(MultiplicativeExpression(
        UnaryExpression(None, primary_expression))))

from_primary_expression(primary_expression) ==
    Expression(ConditionalOrExpression(PyList(<<
        ConditionalAndExpression(PyList(<<
            ValueLogical(RelationalExpression(NumericOf(primary_expression),
                                              None, None))>>))>>)))

\* The tail of filter_relational: the relational expression wrapped up to a Filter.
FilterOf(left, operator, right) ==
    Filter(Constraint(BrackettedExpression(Expression(ConditionalOrExpression(PyList(<<
        ConditionalAndExpression(PyList(<<
            ValueLogical(RelationalExpression(left, operator, right))>>))>>))))))

\* Faulty variant: the operator is not compared with the shape of comparators.
filter_relational_unchecked(focus, comparators, operator) ==
    IF comparators.kind = "PrimaryExpression"
    THEN Built(FilterOf(NumericOf(focus), operator, NumericOf(comparators)))
    ELSE Built(FilterOf(NumericOf(focus), operator,
                        ExpressionList(PyList([i \in DOMAIN comparators.items |->
                            from_primary_expression(comparators.items[i])]))))

\* The two assert statements raise AssertionError (the interpreter runs
\* with assertions enabled, its default).
filter_relational(focus, comparators, operator) ==
    IF comparators.kind = "PrimaryExpression"
    THEN IF operator.value \in {"IN", "NOT IN"} THEN Failed("AssertionError")
         ELSE Built(FilterOf(NumericOf(focus), operator, NumericOf(comparators)))
    ELSE IF operator.value \notin {"IN", "NOT IN"} THEN Failed("AssertionError")
         ELSE Built(FilterOf(NumericOf(focus), operator,
                             ExpressionList(PyList([i \in DOMAIN comparators.items |->
                                 from_primary_expression(comparators.items[i])]))))

-----------------------------------------------------------------------------
(* render(): one operator per class, dispatched by Render.                 *)

RECURSIVE Render(_)

\* "it = iter(items); first = next(it); yield from first.render();
\*  for x in it: yield sep; yield from x.render()".  next() on an exhausted
\* iterator raises StopIteration, which a generator turns into RuntimeError.
RECURSIVE RenderRest(_, _)
RenderRest(items, sep) ==
    IF items = <<>> THEN Ok(<<>>)
    ELSE Then(Then(Ok(<<sep>>), Render(Head(items))), RenderRest(Tail(items), sep))

RenderFirstThenRest(items, sep) ==
    IF items = <<>> THEN Raise("RuntimeError")
    ELSE Then(Render(Head(items)), RenderRest(Tail(items), sep))

\* "for x in items: yield from x.render()"; iterating None is a TypeError.
RECURSIVE RenderAll(_)
RenderAll(items) ==
    IF items = <<>> THEN Ok(<<>>)
    ELSE Then(Render(Head(items)), RenderAll(Tail(items)))

RenderPrologue(n) ==
    IF IsNone(n.decls) THEN Raise("TypeError") ELSE RenderAll(n.decls.items)

\* Faulty variant: ascending is made explicit.
RenderOrderConditionAsc(n) ==
    IF Truthy(n.direction)
    THEN Then(Then(Ok(<<n.direction.value, "(">>), Render(n.var)), Ok(<<")">>))
    ELSE Then(Then(Ok(<<"ASC", "(">>), Render(n.var)), Ok(<<")">>))

RenderOrderCondition(n) ==
    IF Truthy(n.direction)
    THEN Then(Then(Ok(<<n.direction.value, "(">>), Render(n.var)), Ok(<<")">>))
    ELSE Render(n.var)

RenderVerb(n) ==
    IF n.varoriri_or_a.kind = "VarOrIri" THEN Render(n.varoriri_or_a)
    ELSE Ok(<<n.varoriri_or_a.value>>)

\* Faulty variant: a comma after every object, the last included.
RECURSIVE RenderTrailing(_, _)
RenderTrailing(items, sep) ==
    IF items = <<>> THEN Ok(<<>>)
    ELSE Then(Then(Render(Head(items)), Ok(<<sep>>)), RenderTrailing(Tail(items), sep))

RenderObjectListTrailing(n) == RenderTrailing(n.list_object.items, ",")

RenderObjectList(n) == RenderFirstThenRest(n.list_object.items, ",")

\* One (verb, object list) pair of a property list.
RenderPair(pair) ==
    Then(Then(Render(pair.items[1]), Ok(<<" ">>)), Render(pair.items[2]))

RECURSIVE RenderPairsRest(_)
RenderPairsRest(pairs) ==
    IF pairs = <<>> THEN Ok(<<>>)
    ELSE Then(Then(Ok(<<";">>), RenderPair(Head(pairs))), RenderPairsRest(Tail(pairs)))

\* Faulty variant: the pairs are joined without the semicolon.
RECURSIVE RenderPairsNoSep(_)
RenderPairsNoSep(pairs) ==
    IF pairs = <<>> THEN Ok(<<>>)
    ELSE Then(RenderPair(Head(pairs)), RenderPairsNoSep(Tail(pairs)))

RenderPropertyListNotEmptyNoSep(n) ==
    IF n.verb_objectlist.items = <<>> THEN Raise("RuntimeError")
    ELSE RenderPairsNoSep(n.verb_objectlist.items)

RenderPropertyListNotEmpty(n) ==
    IF n.verb_objectlist.items = <<>> THEN Raise("RuntimeError")
    ELSE Then(RenderPair(Head(n.verb_objectlist.items)),
              RenderPairsRest(Tail(n.verb_objectlist.items)))

RenderContentPair(n) ==
    Then(Then(Render(n.content.items[1]), Ok(<<" ">>)), Render(n.content.items[2]))

RenderTriplesSameSubject(n) == RenderContentPair(n)

RenderTriplesSameSubjectPath(n) == RenderContentPair(n)

\* TriplesTemplate.render reads self.triples_same_subject_path, an attribute
\* the class does not have.
RenderTriplesTemplate(n) == Raise("AttributeError")

RenderQuadsNotTriples(n) ==
    Then(Then(Then(Ok(<<"GRAPH ">>), Render(n.var_or_iri)), Ok(<<" {">>)),
         Then(IF Truthy(n.triples_template) THEN Render(n.triples_template) ELSE Ok(<<>>),
              Ok(<<"}">>)))

\* The loop shared by Quads.render and GroupGraphPatternSub.render, from
\* index i on: secondary[i], " .", then primary[i + 1] when it exists.
RECURSIVE RenderInterleaved(_, _, _)
RenderInterleaved(primary, secondary, i) ==
    IF i > Len(secondary) THEN Ok(<<>>)
    ELSE Then(Then(Then(Render(secondary[i]), Ok(<<" .">>)),
                   IF i + 1 <= Len(primary) THEN Render(primary[i + 1]) ELSE Ok(<<>>)),
              RenderInterleaved(primary, secondary, i + 1))

RenderQuads(n) ==
    Then(IF Truthy(n.triples_templates) THEN Render(n.triples_templates.items[1])
         ELSE Ok(<<>>),
         IF IsNone(n.quads_not_triples) THEN Raise("TypeError")
         ELSE RenderInterleaved(n.triples_templates.items, n.quads_not_triples.items, 1))

RenderGroupGraphPatternSub(n) ==
    Then(IF Truthy(n.triples_blocks) THEN Render(n.triples_blocks.items[1]) ELSE Ok(<<>>),
         IF Truthy(n.graph_patterns_not_triples)
         THEN RenderInterleaved(n.triples_blocks.items,
                                n.graph_patterns_not_triples.items, 1)
         ELSE Ok(<<>>))

RenderGroupGraphPattern(n) ==
    Then(Then(Ok(<<"{\n">>), Render(n.content)), Ok(<<"\n}">>))

\* triples is declared TriplesSameSubjectPath with the default None, so it
\* is never a list; None has no render.
RenderTriplesBlock(n) ==
    IF IsNone(n.triples) THEN Raise("AttributeError")
    ELSE Then(Render(n.triples),
              IF Truthy(n.triples_block)
              THEN Then(Then(Ok(<<" .\n">>), Render(n.triples_block)), Ok(<<"\n">>))
              ELSE Ok(<<>>))

\* The render written for GraphPatternNotTriples is a module-level function,
\* so the class inherits SPARQLGrammarBase.render.
RenderGraphPatternNotTriples(n) == Raise("NotImplementedError")

RenderOptionalGraphPattern(n) ==
    Then(Ok(<<"\nOPTIONAL ">>), Render(n.group_graph_pattern))

RenderMinusGraphPattern(n) == Then(Ok(<<"MINUS ">>), Render(n.group_graph_pattern))

RenderGraphGraphPattern(n) ==
    Then(Then(Ok(<<"\nGRAPH ">>), Render(n.var_or_iri)), Render(n.group_graph_pattern))

\* Faulty variant: a UNION keyword in front of every pattern, the first included.
RenderGroupOrUnionGraphPatternLeading(n) ==
    IF n.group_graph_patterns.items = <<>> THEN Raise("RuntimeError")
    ELSE Then(Ok(<<"\n">>), RenderRest(n.group_graph_patterns.items, "\nUNION\n"))

RenderGroupOrUnionGraphPattern(n) ==
    IF n.group_graph_patterns.items = <<>> THEN Raise("RuntimeError")
    ELSE Then(Ok(<<"\n">>), RenderFirstThenRest(n.group_graph_patterns.items, "\nUNION\n"))

RenderPropertyListPathNotEmpty(n) ==
    Then(RenderPair(n.first_pair),
         IF Truthy(n.other_pairs) THEN RenderPairsRest(n.other_pairs.items) ELSE Ok(<<>>))

RenderPropertyListPath(n) == IF Truthy(n.plpne) THEN Render(n.plpne) ELSE Ok(<<>>)

RenderCollectionPath(n) ==
    Then(Then(Ok(<<"(">>), RenderAll(n.graphnodepath_list.items)), Ok(<<")">>))

RenderPathElt(n) ==
    Then(Render(n.path_primary),
         IF Truthy(n.path_mod) THEN Render(n.path_mod) ELSE Ok(<<>>))

RenderPathEltOrInverse(n) ==
    Then(IF Truthy(n.inverse) THEN Ok(<<"^">>) ELSE Ok(<<>>), Render(n.path_elt))

\* For 'a' the generator yields the Enum member itself, which "".join
\* rejects with a TypeError.
RenderPathPrimary(n) ==
    CASE n.value.kind = "VerbRDFType" -> Raise("TypeError")
      [] n.value.kind = "iri" -> Render(n.value)
      [] n.value.kind = "PathNegatedPropertySet" -> Then(Ok(<<"!">>), Render(n.value))
      [] n.value.kind = "SG_Path" -> Then(Then(Ok(<<"(">>), Render(n.value)), Ok(<<")">>))

RenderPathNegatedPropertySet(n) ==
    Then(Render(n.first_path),
         IF Truthy(n.other_paths)
         THEN Then(Then(Ok(<<"(">>), RenderFirstThenRest(n.other_paths.items, "|")),
                   Ok(<<")">>))
         ELSE Ok(<<>>))

RenderPathOneInPropertySet(n) ==
    Then(IF Truthy(n.negated) THEN Ok(<<"^">>) ELSE Ok(<<>>),
         IF n.path.kind = "iri" THEN Render(n.path) ELSE Ok(<<n.path.value>>))

\* "for i, x in enumerate(items): yield from x.render(); if i < len(items) - 1:
\* yield sep": nothing at all for an empty list.
RenderEnumerated(items, sep) ==
    IF items = <<>> THEN Ok(<<>>)
    ELSE Then(Render(Head(items)), RenderRest(Tail(items), sep))

RenderRelationalExpression(n) ==
    Then(Render(n.left),
         IF Truthy(n.operator)
         THEN Then(Ok(<<" ", n.operator.value, " ">>),
                   IF Truthy(n.right) THEN Render(n.right) ELSE Ok(<<>>))
         ELSE Ok(<<>>))

\* The loop over additional_expressions runs over the empty list.
RenderAdditiveExpression(n) == Render(n.base_expression)

RenderMultiplicativeExpression(n) == Render(n.base_expression)

RenderUnaryExpression(n) ==
    Then(IF Truthy(n.operator) THEN Ok(<<n.operator.value, " ">>) ELSE Ok(<<>>),
         Render(n.primary_expression))

RenderBrackettedExpression(n) ==
    Then(Then(Ok(<<"(">>), Render(n.expression)), Ok(<<")">>))

\* Faulty variant: the empty list renders as nothing.
RenderExpressionListNoEmpty(n) ==
    IF ~Truthy(n.expressions) THEN Ok(<<>>)
    ELSE Then(Then(Ok(<<"(">>), RenderEnumerated(n.expressions.items, ", ")), Ok(<<")">>))

RenderExpressionList(n) ==
    IF ~Truthy(n.expressions) THEN Ok(<<"()">>)
    ELSE Then(Then(Ok(<<"(">>), RenderEnumerated(n.expressions.items, ", ")), Ok(<<")">>))

\* Iterating None (expressions is Optional) is a TypeError.
RenderArgList(n) ==
    IF n.expressions.kind = "NIL" THEN Render(n.expressions)
    ELSE Then(Then(Then(IF Truthy(n.distinct) THEN Ok(<<"DISTINCT ">>) ELSE Ok(<<>>),
                        Ok(<<"(">>)),
                   IF IsNone(n.expressions) THEN Raise("TypeError")
                   ELSE RenderEnumerated(n.expressions.items, ", ")),
              Ok(<<")">>))

RenderFilter(n) == Then(Ok(<<"FILTER ">>), Render(n.constraint))

RenderGroupCondition(n) ==
    IF n.condition.kind = "tuple"
    THEN Then(Then(Then(Then(Ok(<<"(">>), Render(n.condition.items[1])), Ok(<<" AS ">>)),
                   Render(n.condition.items[2])), Ok(<<")">>))
    ELSE Render(n.condition)

\* The fragments (the strings yielded one by one) of OrderCondition.render;
\* a Var yields its sigil and its name as two fragments.
OrderConditionFragments(c) ==
    LET var == <<SubSeq(Render(c.var).text, 1, 1),
                 SubSeq(Render(c.var).text, 2, Len(Render(c.var).text))>> IN
    IF Truthy(c.direction) THEN <<<<c.direction.value, "(">>>> \o var \o <<<<")">>>>
    ELSE var

RECURSIVE AllFragments(_)
AllFragments(conditions) ==
    IF conditions = <<>> THEN <<>>
    ELSE OrderConditionFragments(Head(conditions)) \o AllFragments(Tail(conditions))

\* sep.join(fragments)
RECURSIVE Join(_, _)
Join(fragments, sep) ==
    IF fragments = <<>> THEN <<>>
    ELSE IF Len(fragments) = 1 THEN fragments[1]
    ELSE fragments[1] \o <<sep>> \o Join(Tail(fragments), sep)

\* yield " ".join(part for condition in self.conditions for part in
\* condition.render()): the separator goes between all the fragments.
RenderOrderClause(n) ==
    Ok(<<"\nORDER BY ">> \o Join(AllFragments(n.conditions.items), " "))

RenderLimitOffsetClauses(n) ==
    Then(IF Truthy(n.limit_clause) THEN Render(n.limit_clause) ELSE Ok(<<>>),
         IF Truthy(n.offset_clause)
         THEN Then(IF Truthy(n.limit_clause) THEN Ok(<<"\n">>) ELSE Ok(<<>>),
                   Render(n.offset_clause))
         ELSE Ok(<<>>))

\* The first two steps of SolutionModifier.render: order_by, limit_offset.
RenderOrderAndLimit(n) ==
    Then(IF Truthy(n.order_by) THEN Render(n.order_by) ELSE Ok(<<>>),
         IF Truthy(n.limit_offset)
         THEN Then(IF Truthy(n.order_by) THEN Ok(<<"\n">>) ELSE Ok(<<>>),
                   Render(n.limit_offset))
         ELSE Ok(<<>>))

\* Faulty variant: the GROUP BY keyword is emitted whether or not there is a
\* group clause.
RenderSolutionModifierEmptyGroupBy(n) ==
    Then(RenderOrderAndLimit(n),
         Then(Ok(<<"\nGROUP BY ">>),
              IF Truthy(n.group_by)
              THEN RenderEnumerated(n.group_by.group_conditions.items, " ")
              ELSE Ok(<<>>)))

RenderSolutionModifier(n) ==
    Then(RenderOrderAndLimit(n),
         IF Truthy(n.group_by) THEN Render(n.group_by) ELSE Ok(<<>>))

RenderRDFLiteral(n) ==
    Then(Render(n.value),
         IF Truthy(n.langtag) THEN Render(n.langtag)
         ELSE IF Truthy(n.datatype) THEN Then(Ok(<<"^^">>), Render(n.datatype))
         ELSE Ok(<<>>))

Render(n) ==
    CASE n.kind \in TerminalClasses -> RenderTerminal(n)
      [] n.kind \in {"Var", "PrefixedName", "iri", "String"} -> Render(n.value)
      [] n.kind = "RDFLiteral" -> RenderRDFLiteral(n)
      [] n.kind = "BlankNode" -> Then(Render(n.value), Ok(<<" ">>))
      [] n.kind = "GraphTerm" -> Render(n.content)
      [] n.kind = "VarOrTerm" -> Render(n.varorterm)
      [] n.kind = "VarOrIri" -> Render(n.varoriri)
      [] n.kind = "Integer" -> Render(n.integer)
      [] n.kind = "Verb" -> RenderVerb(n)
      [] n.kind = "GraphNode" -> Render(n.varorterm_or_triplesnode)
      [] n.kind = "Object" -> Render(n.graphnode)
      [] n.kind = "ObjectList" -> RenderObjectList(n)
      [] n.kind = "PropertyListNotEmpty" -> RenderPropertyListNotEmpty(n)
      [] n.kind = "TriplesSameSubject" -> RenderTriplesSameSubject(n)
      [] n.kind = "TriplesTemplate" -> RenderTriplesTemplate(n)
      [] n.kind = "QuadsNotTriples" -> RenderQuadsNotTriples(n)
      [] n.kind = "Quads" -> RenderQuads(n)
      [] n.kind = "VerbSimple" -> Render(n.var)
      [] n.kind = "GraphNodePath" -> Render(n.varorterm_or_triplesnodepath)
      [] n.kind = "ObjectPath" -> Render(n.graph_node_path)
      [] n.kind = "ObjectListPath" -> RenderFirstThenRest(n.object_paths.items, ",")
      [] n.kind = "PropertyListPathNotEmpty" -> RenderPropertyListPathNotEmpty(n)
      [] n.kind = "PropertyListPath" -> RenderPropertyListPath(n)
      [] n.kind = "CollectionPath" -> RenderCollectionPath(n)
      [] n.kind = "TriplesNodePath" -> Render(n.coll_path_or_bnpl_path)
      [] n.kind = "TriplesSameSubjectPath" -> RenderTriplesSameSubjectPath(n)
      [] n.kind = "TriplesBlock" -> RenderTriplesBlock(n)
      [] n.kind = "GroupGraphPatternSub" -> RenderGroupGraphPatternSub(n)
      [] n.kind = "GroupGraphPattern" -> RenderGroupGraphPattern(n)
      [] n.kind = "GraphPatternNotTriples" -> RenderGraphPatternNotTriples(n)
      [] n.kind = "OptionalGraphPattern" -> RenderOptionalGraphPattern(n)
      [] n.kind = "MinusGraphPattern" -> RenderMinusGraphPattern(n)
      [] n.kind = "GraphGraphPattern" -> RenderGraphGraphPattern(n)
      [] n.kind = "GroupOrUnionGraphPattern" -> RenderGroupOrUnionGraphPattern(n)
      [] n.kind = "WhereClause" -> Then(Ok(<<"\nWHERE ">>), Render(n.group_graph_pattern))
      [] n.kind = "Prologue" -> RenderPrologue(n)
      [] n.kind = "OrderCondition" -> RenderOrderCondition(n)
      [] n.kind = "VerbPath" -> Render(n.path)
      [] n.kind = "SG_Path" -> Render(n.path_alternative)
      [] n.kind = "PathAlternative" -> RenderFirstThenRest(n.sequence_paths.items, "|")
      [] n.kind = "PathSequence" ->
            RenderFirstThenRest(n.list_path_elt_or_inverse.items, "/")
      [] n.kind = "PathElt" -> RenderPathElt(n)
      [] n.kind = "PathEltOrInverse" -> RenderPathEltOrInverse(n)
      [] n.kind = "PathMod" -> Ok(<<n.pathmod.value>>)
      [] n.kind = "PathPrimary" -> RenderPathPrimary(n)
      [] n.kind = "PathNegatedPropertySet" -> RenderPathNegatedPropertySet(n)
      [] n.kind = "PathOneInPropertySet" -> RenderPathOneInPropertySet(n)
      [] n.kind = "Expression" -> Render(n.conditional_or_expression)
      [] n.kind = "ConditionalOrExpression" ->
            RenderEnumerated(n.conditional_and_expressions.items, " || ")
      [] n.kind = "ConditionalAndExpression" ->
            RenderEnumerated(n.value_logicals.items, " && ")
      [] n.kind = "ValueLogical" -> Render(n.relational_expression)
      [] n.kind = "RelationalExpression" -> RenderRelationalExpression(n)
      [] n.kind = "NumericExpression" -> Render(n.additive_expression)
      [] n.kind = "AdditiveExpression" -> RenderAdditiveExpression(n)
      [] n.kind = "MultiplicativeExpression" -> RenderMultiplicativeExpression(n)
      [] n.kind = "UnaryExpression" -> RenderUnaryExpression(n)
      [] n.kind = "PrimaryExpression" -> Render(n.content)
      [] n.kind = "BrackettedExpression" -> RenderBrackettedExpression(n)
      [] n.kind = "ExpressionList" -> RenderExpressionList(n)
      [] n.kind = "ArgList" -> RenderArgList(n)
      [] n.kind = "Constraint" -> Render(n.content)
      [] n.kind = "Filter" -> RenderFilter(n)
      [] n.kind = "SolutionModifier" -> RenderSolutionModifier(n)
      [] n.kind = "GroupClause" ->
            Then(Ok(<<"\nGROUP BY ">>), RenderEnumerated(n.group_conditions.items, " "))
      [] n.kind = "GroupCondition" -> RenderGroupCondition(n)
      [] n.kind = "HavingClause" ->
            Then(Ok(<<"\nHAVING ">>), RenderEnumerated(n.having_conditions.items, " "))
      [] n.kind = "HavingCondition" -> Render(n.constraint)
      [] n.kind = "OrderClause" -> RenderOrderClause(n)
      [] n.kind = "LimitOffsetClauses" -> RenderLimitOffsetClauses(n)
      [] n.kind = "LimitClause" -> Ok(<<"LIMIT ">> \o n.limit.value)
      [] n.kind = "OffsetClause" -> Ok(<<"OFFSET ">> \o n.offset.value)

-----------------------------------------------------------------------------
(* __hash__ and collect_triples().                                         *)

Range(s) == {s[i] : i \in DOMAIN s}

VerbRDFType_A == [kind |-> "VerbRDFType", value |-> "a"]

\* Values that are not model instances.
Atoms == TerminalClasses \cup {"None", "str", "bool", "int", "VerbRDFType", "UnaryOperator"}

\* The values of the declared fields of a model instance (self.model_fields).
FieldValues(n) == {n[f] : f \in DOMAIN n \ {"kind"}}

\* hash(v) returns (TRUE) or raises TypeError (FALSE).  pydantic models
\* define __eq__, so a class is hashable only through a __hash__ of its
\* own; each __hash__ hashes the attributes named here.  Lists are never
\* hashable, tuples are when their items are.
RECURSIVE Hashable(_)
Hashable(v) ==
    CASE v.kind \in Atoms -> TRUE
      [] v.kind = "list" -> FALSE
      [] v.kind = "tuple" -> \A i \in DOMAIN v.items : Hashable(v.items[i])
      [] v.kind \in {"Var", "iri", "PrefixedName", "BlankNode", "RDFLiteral"} ->
            Hashable(v.value)
      [] v.kind \in {"GraphTerm", "TriplesSameSubject", "TriplesSameSubjectPath"} ->
            Hashable(v.content)
      [] v.kind = "VarOrTerm" -> Hashable(v.varorterm)
      [] v.kind = "ObjectList" ->
            \A i \in DOMAIN v.list_object.items : Hashable(v.list_object.items[i])
      [] v.kind = "VerbSimple" -> Hashable(v.var)
      [] v.kind = "GraphNodePath" -> Hashable(v.varorterm_or_triplesnodepath)
      [] v.kind = "ObjectPath" -> Hashable(v.graph_node_path)
      [] v.kind = "ObjectListPath" ->
            \A i \in DOMAIN v.object_paths.items : Hashable(v.object_paths.items[i])
      [] v.kind = "PropertyListPathNotEmpty" ->
            Hashable(v.first_pair) /\ Hashable(v.other_pairs)
      [] v.kind = "CollectionPath" ->
            \A i \in DOMAIN v.graphnodepath_list.items :
                Hashable(v.graphnodepath_list.items[i])
      [] v.kind = "TriplesNodePath" -> Hashable(v.coll_path_or_bnpl_path)
      [] v.kind = "VerbPath" -> Hashable(v.path)
      [] v.kind = "SG_Path" -> Hashable(v.path_alternative)
      [] v.kind = "PathAlternative" ->
            \A i \in DOMAIN v.sequence_paths.items : Hashable(v.sequence_paths.items[i])
      [] v.kind = "PathSequence" ->
            \A i \in DOMAIN v.list_path_elt_or_inverse.items :
                Hashable(v.list_path_elt_or_inverse.items[i])
      [] v.kind = "PathElt" -> Hashable(v.path_primary) /\ Hashable(v.path_mod)
      [] v.kind = "PathEltOrInverse" -> Hashable(v.path_elt)
      [] v.kind = "PathMod" -> TRUE
      [] v.kind = "PathPrimary" -> Hashable(v.value)
      [] v.kind = "PathNegatedPropertySet" ->
            Hashable(v.first_path) /\ Hashable(v.other_paths)
      [] v.kind = "PathOneInPropertySet" -> Hashable(v.path)
      [] OTHER -> FALSE

Collected(S) == [ok |-> TRUE, triples |-> S, err |-> "none"]

CollectFailed(e) == [ok |-> FALSE, triples |-> {}, err |-> e]

\* What the loop over the attributes visits for one attribute: the items of
\* a list, else the attribute itself.
Visited(v) == IF v.kind = "list" THEN Range(v.items) ELSE {v}

\* The list triples before it is deduplicated, as a set: a visited
\* TriplesSameSubjectPath is appended, any other visited model instance
\* extends the list by its own collect_triples().
RECURSIVE Appended(_)
Appended(n) ==
    UNION {IF v.kind = "TriplesSameSubjectPath" THEN {v}
           ELSE IF v.kind \in SPARQLGrammarBase THEN Appended(v)
           ELSE {} : v \in UNION {Visited(a) : a \in FieldValues(n)}}

\* "triples = list(set(triples))" hashes every collected element, in the
\* nested calls and in the outer one alike: the call raises TypeError when
\* one of them is not hashable.
collect_triples(n) ==
    IF \E t \in Appended(n) : ~Hashable(t) THEN CollectFailed("TypeError")
    ELSE Collected(Appended(n))

\* Every value below v: attributes, list items and tuple items, at any depth.
RECURSIVE Descendants(_)
Descendants(v) ==
    LET kids == IF v.kind \in {"list", "tuple"} THEN Range(v.items)
                ELSE IF v.kind \in Atoms THEN {}
                ELSE FieldValues(v) IN
    kids \cup UNION {Descendants(k) : k \in kids}

\* The triples that occur anywhere in the subtree of n.
SubtreeTriples(n) == {d \in Descendants(n) : d.kind = "TriplesSameSubjectPath"}

-----------------------------------------------------------------------------
(* The trees the callers build: leaves first, then the nodes over them.    *)

VarS == Var(VAR1(<<"s">>))

VarP == Var(VAR1(<<"p">>))

VarO == Var(VAR1(<<"o">>))

IriRef == iri(IRIREF(<<"e", "x", "/", "p">>))

IriPrefixed == iri(PrefixedName(PNAME_LN(<<"e", "x", ":", "p">>)))

BNode == BlankNode(BlankNodeLabel(<<"b", "1">>))

Objects ==
    {Object(GraphNode(VarOrTerm(t))) : t \in {VarO, GraphTerm(IriRef), GraphTerm(BNode)}}

ObjectLists == {ObjectList(PyList(l)) : l \in SeqsOf(Objects, 1, MaxObjects)}

Verbs == {Verb(VarOrIri(VarP)), Verb(VarOrIri(IriRef)), Verb(VerbRDFType_A)}

ObjO == Object(GraphNode(VarOrTerm(VarO)))

ObjIri == Object(GraphNode(VarOrTerm(GraphTerm(IriRef))))

VerbObjectLists ==
    {PyTuple(<<v, ol>>) :
        v \in Verbs, ol \in {ObjectList(PyList(<<ObjO>>)), ObjectList(PyList(<<ObjO, ObjIri>>))}}

PropertyListsNotEmpty ==
    {PropertyListNotEmpty(PyList(l)) : l \in SeqsOf(VerbObjectLists, 1, MaxPairs)}

Directions == {None, PyStr(""), PyStr("ASC"), PyStr("DESC")}

OrderConditions == {OrderCondition(v, d) : v \in {VarS, VarP, VarO}, d \in Directions}

\* ?s ?p ?o and its variants as TriplesSameSubjectPath.
ObjPath(t) == ObjectPath(GraphNodePath(VarOrTerm(t)))

SimplePath(s, o) ==
    TriplesSameSubjectPath(PyTuple(<<
        VarOrTerm(s),
        PropertyListPathNotEmpty(
            PyTuple(<<VerbSimple(VarP), ObjectListPath(PyList(<<ObjPath(o)>>))>>), None)>>))

TsspSPO == SimplePath(VarS, VarO)

TsspOPS == SimplePath(VarO, VarS)

\* ?s ?p ?o ; ?p ?o : other_pairs is a non-empty list.
TsspTwoPairs ==
    TriplesSameSubjectPath(PyTuple(<<
        VarOrTerm(VarS),
        PropertyListPathNotEmpty(
            PyTuple(<<VerbSimple(VarP), ObjectListPath(PyList(<<ObjPath(VarO)>>))>>),
            PyList(<<PyTuple(<<VerbSimple(VarP), ObjectList(PyList(<<ObjO>>))>>)>>))>>))

\* (?s ?o) with an empty property list: the TriplesNodePath shape.
TsspNodePath ==
    TriplesSameSubjectPath(PyTuple(<<
        TriplesNodePath(CollectionPath(PyList(<<GraphNodePath(VarOrTerm(VarS)),
                                                GraphNodePath(VarOrTerm(VarO))>>))),
        PropertyListPath(None)>>))

Tssps == {TsspSPO, TsspOPS, TsspTwoPairs, TsspNodePath}

TriplesBlocks ==
    {TriplesBlock(t, None) : t \in Tssps}
    \cup {TriplesBlock(t, TriplesBlock(u, None)) : t, u \in Tssps}
    \cup {TriplesBlock(None, None)}

TssSPO ==
    TriplesSameSubject(PyTuple(<<
        VarOrTerm(VarS),
        PropertyListNotEmpty(PyList(<<
            PyTuple(<<Verb(VarOrIri(VarP)), ObjectList(PyList(<<ObjO>>))>>)>>))>>))

TssOPS ==
    TriplesSameSubject(PyTuple(<<
        VarOrTerm(VarO),
        PropertyListNotEmpty(PyList(<<
            PyTuple(<<Verb(VarOrIri(VarP)), ObjectList(PyList(<<Object(GraphNode(VarOrTerm(VarS)))>>))>>)>>))>>))

Tsss == {TssSPO, TssOPS}

TemplateSPO == TriplesTemplate(TssSPO, None)

GraphEmpty == QuadsNotTriples(VarOrIri(VarS), None)

GraphSPO == QuadsNotTriples(VarOrIri(VarS), TemplateSPO)

\* The inputs of the two validated constructors.
TemplatePool == {TemplateSPO}

QuadsNotTriplesPool == {GraphEmpty}

BlockSPO == TriplesBlock(TsspSPO, None)

BlockOPS == TriplesBlock(TsspOPS, None)

BlockPool == {BlockSPO, BlockOPS}

\* { ?s ?p ?o }, built as the validated constructor builds it.
InnerSub == ConstructGroupGraphPatternSub(PyList(<<BlockSPO>>), PyList(<<>>)).node

OptionalSPO ==
    GraphPatternNotTriples(OptionalGraphPattern(GroupGraphPattern(InnerSub)))

UnionSPO ==
    GraphPatternNotTriples(GroupOrUnionGraphPattern(PyList(<<GroupGraphPattern(InnerSub)>>)))

PatternPool == {OptionalSPO, UnionSPO}

\* An element for the list field of each class of OneOrMoreClasses.
ElementFor(cls) ==
    CASE cls = "PathAlternative" ->
            PathSequence(PyList(<<PathEltOrInverse(PathElt(PathPrimary(IriRef), None),
                                                   PyBool(FALSE))>>))
      [] cls = "PathSequence" ->
            PathEltOrInverse(PathElt(PathPrimary(IriRef), None), PyBool(FALSE))
      [] cls = "ObjectList" -> ObjO
      [] cls = "ObjectListPath" -> ObjectPath(GraphNodePath(VarOrTerm(VarO)))
      [] cls = "PropertyListNotEmpty" ->
            PyTuple(<<Verb(VarOrIri(VarP)), ObjectList(PyList(<<ObjO>>))>>)
      [] cls = "GroupOrUnionGraphPattern" -> GroupGraphPattern(InnerSub)

\* { ?o ?p ?s }
InnerSubOPS == ConstructGroupGraphPatternSub(PyList(<<BlockOPS>>), PyList(<<>>)).node

\* { ?s ?p ?o OPTIONAL { ?s ?p ?o } }: its patterns have no render of their own.
InnerSubOptional ==
    ConstructGroupGraphPatternSub(PyList(<<BlockSPO>>), PyList(<<OptionalSPO>>)).node

GroupPatterns ==
    {GroupGraphPattern(InnerSub), GroupGraphPattern(InnerSubOPS),
     GroupGraphPattern(InnerSubOptional)}

Unions ==
    {GroupOrUnionGraphPattern(PyList(l)) : l \in SeqsOf(GroupPatterns, 1, MaxUnion)}

GroupClauses == {GroupClause(PyList(<<GroupCondition(VarS)>>))}

HavingClauses ==
    {HavingClause(PyList(<<HavingCondition(Constraint(BrackettedExpression(
        from_primary_expression(PrimaryExpression(VarS)))))>>))}

OrderClauses ==
    {OrderClause(PyList(<<OrderCondition(VarS, None)>>)),
     OrderClause(PyList(<<OrderCondition(VarS, PyStr("DESC"))>>))}

\* Order clauses of one and of two conditions, rendered on their own.
OrderClauseSamples ==
    OrderClauses
    \cup {OrderClause(PyList(<<c, d>>)) :
            c, d \in {OrderCondition(VarS, None), OrderCondition(VarO, PyStr("DESC"))}}

\* Argument lists: NIL, no expressions, ?s, ?s, ?o, ... with and without
\* DISTINCT.
ArgExpressions ==
    {from_primary_expression(PrimaryExpression(VarS)),
     from_primary_expression(PrimaryExpression(VarO))}

ArgLists ==
    {ArgList(es, PyBool(d)) :
        es \in {None, NIL(<<>>)} \cup {PyList(l) : l \in SeqsOf(ArgExpressions, 0, MaxComparators)},
        d \in BOOLEAN}

LimitOffsets ==
    {LimitOffsetClauses(l, o) :
        l \in {None, LimitClause(PyInt(<<"1", "0">>))},
        o \in {None, OffsetClause(PyInt(<<"5">>))}}

SolutionModifiers ==
    {SolutionModifier(g, h, o, lo) :
        g \in {None} \cup GroupClauses, h \in {None} \cup HavingClauses,
        o \in {None} \cup OrderClauses, lo \in {None} \cup LimitOffsets}

\* The alternatives of a negated property set: <ex/p>, ^<ex/p>, a.
Alternatives ==
    {PathOneInPropertySet(IriRef, PyBool(FALSE)), PathOneInPropertySet(IriRef, PyBool(TRUE)),
     PathOneInPropertySet(VerbRDFType_A, PyBool(FALSE))}

NegatedPropertySets ==
    {PathNegatedPropertySet(fp, ops) :
        fp \in Alternatives,
        ops \in {None} \cup {PyList(l) : l \in SeqsOf(Alternatives, 0, MaxOtherPaths)}}

\* "x": a literal, which from_spo supports in no position.
LiteralX == RDFLiteral(String(STRING_LITERAL2(<<"x">>)), None, None)

\* The operands handed to from_spo.
Operands == {VarS, VarP, VarO, IriRef, BNode, LiteralX}

\* The operands handed to filter_relational.
FocusPool == {PrimaryExpression(VarS)}

ComparatorPool == {PrimaryExpression(VarO), PrimaryExpression(VarP)}

Comparators == ComparatorPool \cup {PyList(l) : l \in SeqsOf(ComparatorPool, 0, MaxComparators)}

Operators == {PyStr(o) : o \in {"IN", "NOT IN", "=", "!=", "<", ">", "<=", ">="}}

\* The characters and the raw words handed to the terminal constructors.
Alphabet == {"e", "u", "/", ":", "1", "H", " ", "<", "@", "-"}

Words ==
    SeqsOf(Alphabet, 0, MaxRaw)
    \cup {<<"h", "t", "t", "p", ":", "/", "/", "e", "x", "/", "p">>}

ValidatedTerminals == {"IRIREF", "VAR1", "LANGTAG", "INTEGER"}

Secondaries(pool) == {None} \cup {PyList(l) : l \in SeqsOf(pool, 0, MaxSecondary)}

Primaries(pool) == {PyList(l) : l \in SeqsOf(pool, 0, MaxPrimary)}

\* Nodes of classes without validators, built by field assignment alone.
Samples ==
    ObjectLists \cup PropertyListsNotEmpty \cup OrderConditions \cup TriplesBlocks
    \cup {Prologue(None), Prologue(PyList(<<>>)), TemplateSPO, GraphEmpty, GraphSPO,
          OptionalSPO, UnionSPO, IriRef, IriPrefixed, Integer(INTEGER(<<"4", "2">>)), TssSPO}
    \cup Tssps \cup Unions \cup NegatedPropertySets \cup SolutionModifiers
    \cup OrderClauseSamples \cup ArgLists

-----------------------------------------------------------------------------
(* ConstructTriples objects.  merge_ct assigns to the field                *)
(* construct_triples of objects that exist, so these objects are modelled  *)
(* with identity: heap[a] is the object at address a, a field              *)
(* construct_triples holds an address, NoneRef for None.  A model instance *)
(* passed to a constructor is stored as the same object, not copied.       *)

MaxObjs == 3
MaxCtList == 2

NoneRef == 0

Addresses(h) == DOMAIN h

\* cls(triples=tss, construct_triples=ct): a new object at the next address.
NewObject(h, tss, ct) == Append(h, [triples |-> tss, construct_triples |-> ct])

Returned(h, v) == [status |-> "returned", heap |-> h, value |-> v]

\* A loop that never ends: the call does not return.
Diverges(h) == [status |-> "diverges", heap |-> h, value |-> None]

\* ct.from_tss_list: the objects built for tss_list from index i on, each
\* new object taking the one built before it as its construct_triples.
RECURSIVE FromTssLoop(_, _, _, _)
FromTssLoop(h, tss_list, i, ct) ==
    IF i > Len(tss_list) THEN Returned(h, ct)
    ELSE FromTssLoop(NewObject(h, tss_list[i], ct), tss_list, i + 1, Len(h) + 1)

from_tss_list(h, tss_list) ==
    IF tss_list = <<>> THEN [status |-> "StopIteration", heap |-> h, value |-> None]
    ELSE FromTssLoop(NewObject(h, tss_list[1], NoneRef), tss_list, 2, Len(h) + 1)

\* The loop of to_tss_list from ct on.  A chain without a cycle has at most
\* Len(h) objects; with fuel spent the loop is in a cycle and never ends.
RECURSIVE ToTssLoop(_, _, _)
ToTssLoop(h, ct, fuel) ==
    IF ct = NoneRef THEN Returned(h, <<>>)
    ELSE IF fuel = 0 THEN Diverges(h)
    ELSE LET rest == ToTssLoop(h, h[ct].construct_triples, fuel - 1)
         IN  IF rest.status = "returned"
             THEN Returned(h, <<h[ct].triples>> \o rest.value)
             ELSE rest

to_tss_list(h, self) == ToTssLoop(h, self, Len(h))

\* Faulty variant of the for loop: next_ct is linked to current_ct itself,
\* not to the bottom of its chain.
RECURSIVE MergeLoopNoWalk(_, _, _, _)
MergeLoopNoWalk(h, first_ct, current_ct, rest) ==
    IF rest = <<>> THEN Returned(h, first_ct)
    ELSE MergeLoopNoWalk([h EXCEPT ![current_ct].construct_triples = Head(rest)],
                         first_ct, Head(rest), Tail(rest))

\* The inner while loop of merge_ct: the object of the chain of current_ct
\* whose construct_triples is None, NoneRef when the loop never ends.
RECURSIVE Bottom(_, _, _)
Bottom(h, current_ct, fuel) ==
    IF h[current_ct].construct_triples = NoneRef THEN current_ct
    ELSE IF fuel = 0 THEN NoneRef
    ELSE Bottom(h, h[current_ct].construct_triples, fuel - 1)

\* The for loop of merge_ct over the rest of ct_list.
RECURSIVE MergeLoop(_, _, _, _)
MergeLoop(h, first_ct, current_ct, rest) ==
    IF rest = <<>> THEN Returned(h, first_ct)
    ELSE LET bottom == Bottom(h, current_ct, Len(h))
             next_ct == Head(rest)
         IN  IF bottom = NoneRef THEN Diverges(h)
             ELSE MergeLoop([h EXCEPT ![bottom].construct_triples = next_ct],
                            first_ct, next_ct, Tail(rest))

merge_ct_no_walk(h, ct_list) ==
    IF ct_list = <<>> THEN Returned(h, NoneRef)
    ELSE MergeLoopNoWalk(h, ct_list[1], ct_list[1], Tail(ct_list))

merge_ct(h, ct_list) ==
    IF ct_list = <<>> THEN Returned(h, NoneRef)
    ELSE MergeLoop(h, ct_list[1], ct_list[1], Tail(ct_list))

\* ConstructTriples.render on the object at self.  In a cycle the nested
\* generators grow until the interpreter's recursion limit.
RECURSIVE RenderConstructTriples(_, _, _)
RenderConstructTriples(h, self, fuel) ==
    IF fuel = 0 THEN Raise("RecursionError")
    ELSE Then(Render(h[self].triples),
              IF h[self].construct_triples # NoneRef
              THEN Then(Ok(<<" .\n">>),
                        RenderConstructTriples(h, h[self].construct_triples, fuel - 1))
              ELSE Ok(<<>>))

-----------------------------------------------------------------------------
(* The state machine: the caller builds one tree (node), may wrap it in    *)
(* parents, and calls render / collect_triples on the tree it holds.  The  *)
(* operations share no state, so a caller that builds a second tree is     *)
(* another run of this machine.  The objects that are relinked after      *)
(* construction live in heap; calls holds the generators that are running. *)

Init ==
    /\ node = None
    /\ op = "none"
    /\ args = None
    /\ result = None
    /\ heap = <<>>
    /\ calls = <<>>

\* A node of a class without validator is built.
Construct(n) ==
    /\ op = "none"
    /\ node' = n
    /\ op' = "construct"
    /\ args' = None
    /\ result' = Built(n)
    /\ UNCHANGED <<heap, calls>>

\* Quads(triples_templates=tt, quads_not_triples=qnt)
NewQuads(tt, qnt) ==
    /\ op = "none"
    /\ op' = "Quads"
    /\ args' = [primary |-> tt, secondary |-> qnt]
    /\ result' = ConstructQuads(tt, qnt)
    /\ node' = result'.node
    /\ UNCHANGED <<heap, calls>>

\* GroupGraphPatternSub(triples_blocks=tb, graph_patterns_not_triples=gpnt)
NewGroupGraphPatternSub(tb, gpnt) ==
    /\ op = "none"
    /\ op' = "GroupGraphPatternSub"
    /\ args' = [primary |-> tb, secondary |-> gpnt]
    /\ result' = ConstructGroupGraphPatternSub(tb, gpnt)
    /\ node' = result'.node
    /\ UNCHANGED <<heap, calls>>

\* The held tree becomes the child of a new parent.
Wrapped(n) ==
    CASE n.kind = "GroupGraphPatternSub" -> {GroupGraphPattern(n)}
      [] n.kind = "GroupGraphPattern" ->
            {WhereClause(n), OptionalGraphPattern(n), MinusGraphPattern(n),
             GraphGraphPattern(VarOrIri(VarS), n), GroupOrUnionGraphPattern(PyList(<<n>>))}
      [] n.kind \in {"OptionalGraphPattern", "GroupOrUnionGraphPattern"} ->
            {GraphPatternNotTriples(n)}
      [] OTHER -> {}

Wrap ==
    /\ \E parent \in Wrapped(node) :
          /\ node' = parent
          /\ result' = Built(parent)
    /\ op' = "construct"
    /\ args' = None
    /\ UNCHANGED <<heap, calls>>

\* TriplesSameSubject.from_spo(s, p, o)
CallTriplesSameSubjectFromSpo(s, p, o) ==
    /\ op = "none"
    /\ op' = "TriplesSameSubject.from_spo"
    /\ args' = [subject |-> s, predicate |-> p, object |-> o]
    /\ result' = TriplesSameSubject_from_spo(s, p, o)
    /\ node' = result'.node
    /\ UNCHANGED <<heap, calls>>

\* TriplesSameSubjectPath.from_spo(s, p, o)
CallTriplesSameSubjectPathFromSpo(s, p, o) ==
    /\ op = "none"
    /\ op' = "TriplesSameSubjectPath.from_spo"
    /\ args' = [subject |-> s, predicate |-> p, object |-> o]
    /\ result' = TriplesSameSubjectPath_from_spo(s, p, o)
    /\ node' = result'.node
    /\ UNCHANGED <<heap, calls>>

\* Filter.filter_relational(focus, comparators, operator)
CallFilterRelational(focus, comparators, operator) ==
    /\ op = "none"
    /\ op' = "Filter.filter_relational"
    /\ args' = [focus |-> focus, comparators |-> comparators, operator |-> operator]
    /\ result' = filter_relational(focus, comparators, operator)
    /\ node' = result'.node
    /\ UNCHANGED <<heap, calls>>

\* cls(value=raw) for a terminal class: the field validator check_value runs.
NewTerminal(cls, raw) ==
    /\ op = "none"
    /\ op' = "Terminal"
    /\ args' = [cls |-> cls, raw |-> raw]
    /\ result' = IF check_value(cls, raw) = "ok" THEN Built([kind |-> cls, value |-> raw])
                  ELSE Failed(check_value(cls, raw))
    /\ node' = result'.node
    /\ UNCHANGED <<heap, calls>>

\* cls(<list field>=v) for a class of OneOrMoreClasses.
NewOneOrMore(cls, v) ==
    /\ op = "none"
    /\ op' = "OneOrMore"
    /\ args' = [cls |-> cls, value |-> v]
    /\ result' = ConstructOneOrMore(cls, v)
    /\ node' = result'.node
    /\ UNCHANGED <<heap, calls>>

\* "".join(node.render()): the generator is consumed to its end.
CallRender ==
    /\ ~IsNone(node)
    /\ op' = "render"
    /\ args' = None
    /\ result' = Render(node)
    /\ UNCHANGED node
    /\ UNCHANGED <<heap, calls>>

\* node.collect_triples(), a method of SPARQLGrammarBase.
CallCollectTriples ==
    /\ node.kind \in SPARQLGrammarBase
    /\ op' = "collect_triples"
    /\ args' = None
    /\ result' = collect_triples(node)
    /\ UNCHANGED node
    /\ UNCHANGED <<heap, calls>>

Next ==
    \/ op = "none" /\ \E n \in Samples : Construct(n)
    \/ op = "none" /\ \E tt \in Primaries(TemplatePool), qnt \in Secondaries(QuadsNotTriplesPool) :
          NewQuads(tt, qnt)
    \/ op = "none" /\ \E tb \in Primaries(BlockPool), gpnt \in Secondaries(PatternPool) :
          NewGroupGraphPatternSub(tb, gpnt)
    \/ op = "none" /\ \E s, p, o \in Operands : CallTriplesSameSubjectFromSpo(s, p, o)
    \/ op = "none" /\ \E s, p, o \in Operands : CallTriplesSameSubjectPathFromSpo(s, p, o)
    \/ op = "none" /\ \E f \in FocusPool, c \in Comparators, o \in Operators :
          CallFilterRelational(f, c, o)
    \/ op = "none" /\ \E cls \in ValidatedTerminals, raw \in Words : NewTerminal(cls, raw)
    \/ op = "none" /\ \E cls \in OneOrMoreClasses :
          \E l \in SeqsOf({ElementFor(cls)}, 0, MaxObjects) : NewOneOrMore(cls, PyList(l))
    \/ Wrap
    \/ CallRender
    \/ CallCollectTriples

Spec == Init /\ [][Next]_vars

-----------------------------------------------------------------------------
(* The caller of ConstructTriples: objects are built, chains are merged,   *)
(* listed and rendered, in any order.  A call leaves its arguments and its *)
(* outcome in args and result until the caller goes on to the next call.   *)

\* ConstructTriples(triples=tss, construct_triples=ct)
NewConstructTriples(tss, ct) ==
    /\ op = "none"
    /\ Len(heap) < MaxObjs
    /\ op' = "ConstructTriples"
    /\ args' = [triples |-> tss, construct_triples |-> ct, before |-> heap]
    /\ heap' = NewObject(heap, tss, ct)
    /\ result' = Returned(heap', Len(heap'))
    /\ UNCHANGED <<node, calls>>

\* ConstructTriples.from_tss_list(tss_list)
CallFromTssList(tss_list) ==
    /\ op = "none"
    /\ Len(heap) + Len(tss_list) <= MaxObjs
    /\ op' = "ConstructTriples.from_tss_list"
    /\ args' = [tss_list |-> tss_list, before |-> heap]
    /\ result' = from_tss_list(heap, tss_list)
    /\ heap' = result'.heap
    /\ UNCHANGED <<node, calls>>

\* ConstructTriples.merge_ct(ct_list)
CallMergeCt(ct_list) ==
    /\ op = "none"
    /\ op' = "ConstructTriples.merge_ct"
    /\ args' = [ct_list |-> ct_list, before |-> heap]
    /\ result' = merge_ct(heap, ct_list)
    /\ heap' = result'.heap
    /\ UNCHANGED <<node, calls>>

\* ct.to_tss_list()
CallToTssList(ct) ==
    /\ op = "none"
    /\ op' = "ConstructTriples.to_tss_list"
    /\ args' = [self |-> ct, before |-> heap]
    /\ result' = to_tss_list(heap, ct)
    /\ UNCHANGED <<node, heap, calls>>

\* "".join(ct.render())
CallRenderConstructTriples(ct) ==
    /\ op = "none"
    /\ op' = "ConstructTriples.render"
    /\ args' = [self |-> ct, before |-> heap]
    /\ result' = RenderConstructTriples(heap, ct, Len(heap) + 1)
    /\ UNCHANGED <<node, heap, calls>>

\* The caller is done with the outcome of the last call.
Continue ==
    /\ op # "none"
    /\ IF op = "ConstructTriples.render" THEN TRUE ELSE result.status # "diverges"
    /\ op' = "none"
    /\ args' = None
    /\ result' = None
    /\ UNCHANGED <<node, heap, calls>>

HeapNext ==
    \/ \E tss \in Tsss, ct \in {NoneRef} \cup Addresses(heap) : NewConstructTriples(tss, ct)
    \/ \E tss_list \in SeqsOf(Tsss, 0, MaxObjs) : CallFromTssList(tss_list)
    \/ \E ct_list \in SeqsOf(Addresses(heap), 0, MaxCtList) : CallMergeCt(ct_list)
    \/ \E ct \in Addresses(heap) : CallToTssList(ct)
    \/ \E ct \in Addresses(heap) : CallRenderConstructTriples(ct)
    \/ Continue

HeapSpec == Init /\ [][HeapNext]_vars

-----------------------------------------------------------------------------
(* Callers that share one tree.  node.render() makes a generator; each     *)
(* next() on it runs the method bodies up to the next yield.  The position *)
(* of a generator is kept in its own frames, so every call has its own pos *)
(* and out; what a step yields is read from the tree as it is at the step. *)
(* collect_triples() is an ordinary method and returns within one step.    *)

MaxCallers == 2

Callers == 1..MaxCallers

Idle == [method |-> "none", state |-> "idle", pos |-> 0, out |-> <<>>]

SharedTrees ==
    {TsspSPO, GroupGraphPattern(InnerSub), GroupGraphPattern(InnerSubOptional)}

InterleavedInit ==
    /\ \E n \in SharedTrees :
          /\ node = n
          /\ result = Built(n)
    /\ op = "construct"
    /\ args = None
    /\ heap = <<>>
    /\ calls = [c \in Callers |-> Idle]

\* gen = node.render(): nothing of the body runs yet.
StartRender(c) ==
    /\ calls[c].state = "idle"
    /\ calls' = [calls EXCEPT ![c] =
                    [method |-> "render", state |-> "suspended", pos |-> 0, out |-> <<>>]]
    /\ UNCHANGED <<node, op, args, result, heap>>

\* Faulty variant: one cursor for all generators, so a step of one caller
\* moves the position of every suspended generator.
NextFragmentSharedCursor(c) ==
    /\ calls[c].state = "suspended"
    /\ calls[c].pos < Len(Render(node).text)
    /\ calls' = [d \in Callers |->
                    IF d = c
                    THEN [calls[d] EXCEPT !.pos = @ + 1,
                                          !.out = Append(@, Render(node).text[calls[c].pos + 1])]
                    ELSE IF calls[d].state = "suspended" /\ calls[d].pos < Len(Render(node).text)
                         THEN [calls[d] EXCEPT !.pos = @ + 1]
                         ELSE calls[d]]
    /\ UNCHANGED <<node, op, args, result, heap>>

\* next(gen) that yields: the caller appends the fragment to its own text.
NextFragment(c) ==
    /\ calls[c].state = "suspended"
    /\ calls[c].pos < Len(Render(node).text)
    /\ calls' = [calls EXCEPT ![c].pos = @ + 1,
                              ![c].out = Append(@, Render(node).text[calls[c].pos + 1])]
    /\ UNCHANGED <<node, op, args, result, heap>>

\* next(gen) after the last fragment: StopIteration, or the exception that
\* a render method raises.
EndRender(c) ==
    /\ calls[c].state = "suspended"
    /\ calls[c].pos = Len(Render(node).text)
    /\ calls' = [calls EXCEPT ![c].state =
                    IF Render(node).ok THEN "exhausted" ELSE Render(node).err]
    /\ UNCHANGED <<node, op, args, result, heap>>

\* node.collect_triples() by a caller, between the steps of the generators.
CollectWhileRendering(c) ==
    /\ calls[c].state = "idle"
    /\ calls' = [calls EXCEPT ![c] =
                    [method |-> "collect_triples", state |-> "returned", pos |-> 0,
                     out |-> collect_triples(node)]]
    /\ UNCHANGED <<node, op, args, result, heap>>

InterleavedNext ==
    \/ \E c \in Callers : StartRender(c)
    \/ \E c \in Callers : NextFragment(c)
    \/ \E c \in Callers : EndRender(c)
    \/ \E c \in Callers : CollectWhileRendering(c)

InterleavedSpec == InterleavedInit /\ [][InterleavedNext]_vars

-----------------------------------------------------------------------------
(* Properties.                                                             *)

IsPairedConstruction == op \in {"Quads", "GroupGraphPatternSub"}

PrimaryLen == Len(args.primary.items)

SecondaryLen == Len(args.secondary.items)

StructuralError == result.status = "ValidationError" /\ IsNone(result.node) /\ IsNone(node)

Succeeded == result.status = "ok" /\ ~IsNone(result.node) /\ node = result.node

\* C1: a paired structure with zero primary elements fails with the
\* structural (validation) error and returns no node, whether the secondary
\* sequence is omitted, empty or non-empty.
C1_ZeroPrimaryIsStructuralError ==
    (IsPairedConstruction /\ PrimaryLen = 0) => StructuralError

C3_OnePrimaryNoSecondarySucceeds ==
    (IsPairedConstruction /\ PrimaryLen = 1 /\ ~Truthy(args.secondary)) => Succeeded

\* The same triple once directly in the triples block of the pattern held
\* and once inside a nested OPTIONAL block, and no other triple.
SameTripleDirectAndOptional(g) ==
    /\ g.kind = "GroupGraphPattern"
    /\ g.content.kind = "GroupGraphPatternSub"
    /\ \E t \in Tssps :
          /\ \E i \in DOMAIN g.content.triples_blocks.items :
                g.content.triples_blocks.items[i].triples = t
          /\ \E j \in DOMAIN g.content.graph_patterns_not_triples.items :
                LET gp == g.content.graph_patterns_not_triples.items[j] IN
                /\ gp.content.kind = "OptionalGraphPattern"
                /\ t \in SubtreeTriples(gp)
          /\ SubtreeTriples(g) = {t}

\* C4: collect_triples() of a graph pattern (or of the WhereClause around
\* it) that holds the same triple directly and inside an OPTIONAL block
\* returns exactly one element.
C4_DuplicateCollectedOnce ==
    (/\ op = "collect_triples"
     /\ \/ SameTripleDirectAndOptional(node)
        \/ node.kind = "WhereClause" /\ SameTripleDirectAndOptional(node.group_graph_pattern))
    => (result.ok /\ Cardinality(result.triples) = 1)

\* C5: what collect_triples() returns is exactly the set of the triples
\* that occur in the subtree of the node, at any depth.
C5_CollectsWholeSubtree ==
    (op = "collect_triples" /\ result.ok) => result.triples = SubtreeTriples(node)

\* C6: render() of a constructed node runs to its end without an error.
C6_RenderIsTotal == op = "render" => result.ok

\* C7: collect_triples() of a constructed node returns without an error.
C7_CollectIsTotal == op = "collect_triples" => result.ok

\* The texts ts[1], ..., ts[n] with sep between successive ones.
RECURSIVE JoinTexts(_, _)
JoinTexts(ts, sep) ==
    IF Len(ts) = 1 THEN ts[1]
    ELSE JoinTexts(SubSeq(ts, 1, Len(ts) - 1), sep) \o <<sep>> \o ts[Len(ts)]

Occurrences(text, lexeme) == Cardinality({i \in DOMAIN text : text[i] = lexeme})

TextsOf(items) == [i \in DOMAIN items |-> Render(items[i]).text]

\* C8: an ObjectList of n >= 1 objects renders the objects' texts in list
\* order with exactly n-1 commas, one between successive objects, none
\* leading or trailing.
C8_ObjectListCommas ==
    (/\ op = "render"
     /\ node.kind = "ObjectList"
     /\ Len(node.list_object.items) >= 1
     /\ \A i \in DOMAIN node.list_object.items : Render(node.list_object.items[i]).ok)
    => /\ result.ok
       /\ result.text = JoinTexts(TextsOf(node.list_object.items), ",")
       /\ Occurrences(result.text, ",") = Len(node.list_object.items) - 1
       /\ Head(result.text) # ","
       /\ result.text[Len(result.text)] # ","

C8_Witness ==
    /\ op = "render"
    /\ node.kind = "ObjectList"
    /\ Len(node.list_object.items) = 3
    /\ result.ok
    /\ Occurrences(result.text, ",") = 2

\* The text of one (verb, object list) pair: verb, one space, object list.
PairText(pair) == Render(pair.items[1]).text \o <<" ">> \o Render(pair.items[2]).text

\* C9: a PropertyListNotEmpty of n >= 1 pairs renders, pair by pair in
\* order, verb text, one space, object-list text, with exactly one ';'
\* between successive pairs and none before the first or after the last.
C9_PropertyListSemicolons ==
    (/\ op = "render"
     /\ node.kind = "PropertyListNotEmpty"
     /\ Len(node.verb_objectlist.items) >= 1)
    => LET pairs == node.verb_objectlist.items IN
       /\ result.ok
       /\ result.text = JoinTexts([i \in DOMAIN pairs |-> PairText(pairs[i])], ";")
       /\ Occurrences(result.text, ";") = Len(pairs) - 1
       /\ Head(result.text) # ";"
       /\ result.text[Len(result.text)] # ";"

C9_Witness ==
    /\ op = "render"
    /\ node.kind = "PropertyListNotEmpty"
    /\ Len(node.verb_objectlist.items) = 2
    /\ result.ok
    /\ Occurrences(result.text, ";") = 1

\* C10: an OrderCondition without direction renders exactly the text of
\* its variable; with a direction D it renders D, "(", the text of the
\* variable, ")".  The empty string counts as no direction.
C10_OrderConditionDirection ==
    (op = "render" /\ node.kind = "OrderCondition") =>
        /\ result.ok
        /\ ~Truthy(node.direction) => result.text = Render(node.var).text
        /\ Truthy(node.direction) =>
              result.text = <<node.direction.value, "(">> \o Render(node.var).text \o <<")">>
        /\ IsNone(node.direction) => result.text = <<"?">> \o node.var.value.value

C10_Witness ==
    /\ op = "render"
    /\ node.kind = "OrderCondition"
    /\ node.direction = PyStr("DESC")
    /\ result.text = <<"DESC", "(", "?", "s", ")">>


AlternativesOf(n) ==
    <<n.first_path>> \o (IF IsNone(n.other_paths) THEN <<>> ELSE n.other_paths.items)

\* C12: a PathNegatedPropertySet with one alternative renders that
\* alternative without parentheses; with more than one it renders '(', all
\* alternatives (first_path and every element of other_paths) separated by
\* '|', then ')', so that every alternative lies inside the parentheses.
C12_NegatedSetParentheses ==
    (op = "render" /\ node.kind = "PathNegatedPropertySet")
    => LET alts == AlternativesOf(node) IN
       /\ result.ok
       /\ Len(alts) = 1 => result.text = Render(alts[1]).text
       /\ Len(alts) > 1 =>
            result.text = <<"(">> \o JoinTexts(TextsOf(alts), "|") \o <<")">>

\* The lexemes a present clause contributes to the text.
ClauseLexemes(clause) == IF IsNone(clause) THEN {} ELSE Range(Render(clause).text)

SupportedTerm(t) == t.kind \in {"Var", "iri", "BlankNode"}

SupportedPredicate(p) == p.kind \in {"Var", "iri"}

SupportedOperands ==
    /\ SupportedTerm(args.subject)
    /\ SupportedPredicate(args.predicate)
    /\ SupportedTerm(args.object)

\* A subject or object term assembled by hand.
HandTerm(t) ==
    CASE t.kind = "Var" -> [kind |-> "VarOrTerm", varorterm |-> t]
      [] t.kind \in {"iri", "BlankNode"} ->
            [kind |-> "VarOrTerm", varorterm |-> [kind |-> "GraphTerm", content |-> t]]

\* A predicate assembled by hand: VerbSimple for a Var, a VerbPath chain of
\* one alternative, one sequence and one element for an iri.
HandVerb(p) ==
    CASE p.kind = "Var" -> [kind |-> "VerbSimple", var |-> p]
      [] p.kind = "iri" ->
            VerbPath(SG_Path(PathAlternative(PyList(<<PathSequence(PyList(<<
                PathEltOrInverse(PathElt(PathPrimary(p), None), PyBool(FALSE))>>))>>))))

HandAssembledPath(s, p, o) ==
    TriplesSameSubjectPath(PyTuple(<<
        HandTerm(s),
        PropertyListPathNotEmpty(
            PyTuple(<<HandVerb(p),
                      ObjectListPath(PyList(<<ObjectPath(GraphNodePath(HandTerm(o)))>>))>>),
            None)>>))

HandAssembledTriple(s, p, o) ==
    TriplesSameSubject(PyTuple(<<
        HandTerm(s),
        PropertyListNotEmpty(PyList(<<PyTuple(<<
            Verb(VarOrIri(p)),
            ObjectList(PyList(<<Object(GraphNode(HandTerm(o)))>>))>>)>>))>>))

\* C15: for supported operands TriplesSameSubject.from_spo succeeds and
\* returns the minimal tree (VarOrTerm subject, PropertyListNotEmpty with one
\* (Verb, ObjectList) pair holding one Object), whose text is the subject
\* text, a space, the predicate text, a space, the object text.
C15_TripleFromSpoMinimalTree ==
    (op = "TriplesSameSubject.from_spo" /\ SupportedOperands)
    => /\ result.status = "ok"
       /\ result.node = HandAssembledTriple(args.subject, args.predicate, args.object)
       /\ Render(result.node).text =
             Render(HandTerm(args.subject)).text \o <<" ">>
             \o Render(args.predicate).text \o <<" ">>
             \o Render(HandTerm(args.object)).text

\* The operands of the call that are outside the documented sets.
UnsupportedOperands ==
    {t \in {args.subject, args.object} : ~SupportedTerm(t)}
    \cup {p \in {args.predicate} : ~SupportedPredicate(p)}

\* C16: from_spo of either class, called with an unsupported operand in any
\* position, fails with the operand-type error (the helper's ValueError),
\* whose message names the variant of an unsupported operand, and returns
\* no node.
C16_UnsupportedOperandError ==
    (/\ op \in {"TriplesSameSubject.from_spo", "TriplesSameSubjectPath.from_spo"}
     /\ ~SupportedOperands)
    => /\ IsNone(result.node)
       /\ IsNone(node)
       /\ result.status = "ValueError"
       /\ \E t \in UnsupportedOperands : t.kind \in result.message.names

ShapeMismatch ==
    \/ args.operator.value \in {"IN", "NOT IN"} /\ args.comparators.kind = "PrimaryExpression"
    \/ args.operator.value \in {"=", "!=", "<", ">", "<=", ">="} /\ IsList(args.comparators)

\* The right-hand side of the relational expression inside a Filter built by
\* filter_relational.
RightSide(f) ==
    f.constraint.content.expression.conditional_or_expression
     .conditional_and_expressions.items[1].value_logicals.items[1]
     .relational_expression.right

IRIREF_Body(w) ==
    \A i \in DOMAIN w :
        /\ w[i] \notin {"<", ">", "\"", "{", "}", "|", "^", "\\"}
        /\ CodePoint(w[i]) > 32

\* C19: constructing an IRIREF from raw succeeds exactly when raw matches
\* the IRIREF body rule (so an absolute IRI such as http://ex/p, with ':',
\* digits, uppercase letters or 'u', is accepted), and any other raw fails
\* with the lexical (validation) error and yields no terminal.
C19_IrirefAcceptsBodyRule ==
    (op = "Terminal" /\ args.cls = "IRIREF")
    => /\ (result.status = "ok") <=> IRIREF_Body(args.raw)
       /\ result.status = "ok" => result.node = IRIREF(args.raw)
       /\ result.status # "ok" => (result.status = "ValidationError" /\ IsNone(node))

\* C20: a terminal built from an accepted raw value renders as its grammar
\* production with each delimiter once: IRIREF '<' raw '>', VAR1 '?' raw,
\* LANGTAG one '@' followed by the tag, INTEGER its digits.
C20_TerminalSurfaceForm ==
    (op = "render" /\ node.kind \in ValidatedTerminals)
    => /\ result.ok
       /\ node.kind = "IRIREF" => result.text = <<"<">> \o node.value \o <<">">>
       /\ node.kind = "VAR1" => result.text = <<"?">> \o node.value
       /\ node.kind = "LANGTAG" =>
             (LANGTAG_REGEX(result.text) /\ Occurrences(result.text, "@") = 1)
       /\ node.kind = "INTEGER" => result.text = node.value
-----------------------------------------------------------------------------
(* ConstructTriples chains.                                                *)

IsMergeCt == op = "ConstructTriples.merge_ct"

\* C21: merge_ct leaves every input untouched: after the call every
\* ConstructTriples of ct_list has the triples, the construct_triples child
\* and the to_tss_list() it had before the call.
C21_MergeLeavesInputsUnchanged ==
    (IsMergeCt /\ result.status = "returned") =>
        \A i \in DOMAIN args.ct_list :
            LET ct == args.ct_list[i]
            IN  /\ heap[ct] = args.before[ct]
                /\ to_tss_list(heap, ct).value = to_tss_list(args.before, ct).value

\* C22: after any sequence of constructions and merge_ct calls no
\* ConstructTriples is reachable from itself through construct_triples, so
\* to_tss_list() ends on every object.
C22_NeverACycle ==
    \A ct \in Addresses(heap) : to_tss_list(heap, ct).status = "returned"

\* The addresses of the objects of the chain that starts at ct.
RECURSIVE ChainObjects(_, _, _)
ChainObjects(h, ct, fuel) ==
    IF ct = NoneRef \/ fuel = 0 THEN {}
    ELSE {ct} \cup ChainObjects(h, h[ct].construct_triples, fuel - 1)

PairwiseDisjointChains(h, ct_list) ==
    /\ \A i \in DOMAIN ct_list : to_tss_list(h, ct_list[i]).status = "returned"
    /\ \A i, j \in DOMAIN ct_list :
          i # j => ChainObjects(h, ct_list[i], Len(h)) \cap
                   ChainObjects(h, ct_list[j], Len(h)) = {}

\* to_tss_list(c1) \o .. \o to_tss_list(cn) in the heap h.
RECURSIVE ConcatenatedLists(_, _)
ConcatenatedLists(h, ct_list) ==
    IF ct_list = <<>> THEN <<>>
    ELSE to_tss_list(h, Head(ct_list)).value \o ConcatenatedLists(h, Tail(ct_list))

\* C26: merge_ct returns None for the empty list; for pairwise disjoint
\* chains it returns one chain whose to_tss_list() is the concatenation of
\* the inputs' lists in list order.
C26_MergeConcatenatesDisjointChains ==
    (IsMergeCt /\ PairwiseDisjointChains(args.before, args.ct_list)) =>
        /\ result.status = "returned"
        /\ (args.ct_list = <<>>) <=> (result.value = NoneRef)
        /\ result.value # NoneRef =>
              /\ to_tss_list(heap, result.value).status = "returned"
              /\ to_tss_list(heap, result.value).value =
                    ConcatenatedLists(args.before, args.ct_list)

\* Two disjoint chains were merged and the first one had two objects, so
\* the second was linked below the first one's bottom.
C26_Witness ==
    /\ IsMergeCt
    /\ Len(args.ct_list) = 2
    /\ PairwiseDisjointChains(args.before, args.ct_list)
    /\ Len(to_tss_list(args.before, args.ct_list[1]).value) = 2
    /\ Len(to_tss_list(heap, result.value).value) = 3

\* C27: from_tss_list and to_tss_list are inverse: for a non-empty list L,
\* from_tss_list(L).to_tss_list() = L.
C27_FromTssListRoundTrip ==
    (op = "ConstructTriples.from_tss_list" /\ args.tss_list # <<>>) =>
        /\ result.status = "returned"
        /\ to_tss_list(heap, result.value).value = args.tss_list

-----------------------------------------------------------------------------
(* Interleaved calls on one tree.                                          *)

RenderCalls == {c \in DOMAIN calls : calls[c].method = "render"}

-----------------------------------------------------------------------------
(* The order of the clauses of a SolutionModifier.                         *)

\* The first place of lexeme in text, 0 when it does not occur.
Place(text, lexeme) ==
    IF \E i \in DOMAIN text : text[i] = lexeme
    THEN CHOOSE i \in DOMAIN text : text[i] = lexeme /\ \A j \in 1..(i - 1) : text[j] # lexeme
    ELSE 0

\* The keywords of the clauses of n that are present, in the grammar's
\* order GroupClause, HavingClause, OrderClause, LimitOffsetClauses.
PresentKeywords(n) ==
    (IF IsNone(n.group_by) THEN <<>> ELSE <<"\nGROUP BY ">>)
    \o (IF IsNone(n.having) THEN <<>> ELSE <<"\nHAVING ">>)
    \o (IF IsNone(n.order_by) THEN <<>> ELSE <<"\nORDER BY ">>)
    \o (IF IsNone(n.limit_offset) THEN <<>>
        ELSE (IF IsNone(n.limit_offset.limit_clause) THEN <<>> ELSE <<"LIMIT ">>)
             \o (IF IsNone(n.limit_offset.offset_clause) THEN <<>> ELSE <<"OFFSET ">>))

\* C24: a SolutionModifier renders every clause that is present exactly
\* once and in the grammar's order: GROUP BY, then HAVING, then ORDER BY,
\* then LIMIT / OFFSET.
C24_ClausesInGrammarOrder ==
    (op = "render" /\ node.kind = "SolutionModifier")
    => LET keywords == PresentKeywords(node)
       IN /\ result.ok
          /\ \A i \in DOMAIN keywords : Occurrences(result.text, keywords[i]) = 1
          /\ \A i, j \in DOMAIN keywords :
                i < j => Place(result.text, keywords[i]) < Place(result.text, keywords[j])

-----------------------------------------------------------------------------
(* The rendering of a GroupGraphPatternSub.                                *)

\* gp[i], " .", tb[i + 1] when it exists, for i from the given index on.
RECURSIVE PatternsThenBlocks(_, _, _)
PatternsThenBlocks(tb, gp, i) ==
    IF i > Len(gp) THEN <<>>
    ELSE Render(gp[i]).text \o <<" .">>
         \o (IF i + 1 <= Len(tb) THEN Render(tb[i + 1]).text ELSE <<>>)
         \o PatternsThenBlocks(tb, gp, i + 1)

\* C25: render of a validly constructed GroupGraphPatternSub succeeds and
\* emits tb[0], then for each graph pattern gp[i] its text, " .", and
\* tb[i+1] when it exists, every block and pattern once and in list order.
C25_GroupGraphPatternSubRendering ==
    (/\ op = "render"
     /\ node.kind = "GroupGraphPatternSub"
     /\ IsList(node.graph_patterns_not_triples))
    => LET tb == node.triples_blocks.items
           gp == node.graph_patterns_not_triples.items
       IN /\ result.ok
          /\ \A k \in DOMAIN gp : Render(gp[k]).ok
          /\ result.text = Render(tb[1]).text \o PatternsThenBlocks(tb, gp, 1)

-----------------------------------------------------------------------------
(* Productions with at least one element.                                  *)

\* C28: constructing PathAlternative, PathSequence, ObjectList,
\* ObjectListPath, PropertyListNotEmpty or GroupOrUnionGraphPattern with an
\* empty list fails with the structural (validation) error and gives no
\* node.
C28_EmptySequenceRejected ==
    (op = "OneOrMore" /\ args.value.items = <<>>) => StructuralError

-----------------------------------------------------------------------------
(* The rendering of an OrderClause.                                        *)

\* C29: an OrderClause renders "\nORDER BY " and then the complete text of
\* each condition, as OrderCondition renders it, with one space between
\* successive conditions and none inside a condition's text.
C29_OrderClauseJoinsConditions ==
    (/\ op = "render"
     /\ node.kind = "OrderClause"
     /\ Len(node.conditions.items) >= 1)
    => /\ result.ok
       /\ result.text = <<"\nORDER BY ">> \o JoinTexts(TextsOf(node.conditions.items), " ")

-----------------------------------------------------------------------------
(* The rendering of an ArgList.                                            *)

\* C30: an ArgList holding expressions e1..en renders "(", then
\* "DISTINCT " when distinct is set, then the expressions' texts separated
\* by ", ", then ")": the keyword is the first token inside the
\* parentheses.
C30_ArgListParenthesized ==
    (/\ op = "render"
     /\ node.kind = "ArgList"
     /\ IsList(node.expressions)
     /\ Len(node.expressions.items) >= 1)
    => /\ result.ok
       /\ result.text =
             <<"(">> \o (IF node.distinct.value THEN <<"DISTINCT ">> ELSE <<>>)
             \o JoinTexts(TextsOf(node.expressions.items), ", ") \o <<")">>

====
